---- MODULE Spec2Model ----
\* Model of batch/migrate_done_to_cache.py: one run of main() over an output
\* directory (load + normalise the completion cache, scan the job directories,
\* merge, save), a second run over the unchanged directory, and merge_caches
\* as a function of arbitrary mappings.
\*
\* Strings are sequences of one-character strings.  A Python dict whose
\* iteration order matters (the object read from the cache file) is a sequence
\* of <<key, value>> pairs with distinct keys; a dict whose order is not
\* observable (the normalised and merged caches, which are only ever written
\* back with sort_keys=True) is a function from its key set to the values.
EXTENDS Integers, Sequences, FiniteSets, TLC

VARIABLES
    argc,            \* len(sys.argv)
    root,            \* the output directory: "missing", "unlistable" or "ok"
    entries,         \* os.scandir(output_dir): name -> [is_dir, done]
    cache_file,      \* output_dir/.completion_cache.json: [kind, items]
    pc,              \* position of the run inside main()
    existing_cache,  \* main: existing_cache
    completed_jobs,  \* main: completed_jobs
    merged_cache,    \* main: merged_cache
    added,           \* main: added
    already_exists,  \* main: already_exists
    exit_code,       \* process exit status, -1 while running
    saves,           \* number of calls of save_completion_cache in this run
    saved_arg,       \* the cache handed to the last save_completion_cache call
    save_result,     \* how that call ended, "none" before any call
    start_file,      \* cache_file as it was when this run started
    run,             \* 1 for the first run, 2 for the run repeated after it
    first_file,      \* cache_file when the first run ended
    first_exit       \* exit status of the first run

vars == <<argc, root, entries, cache_file, pc, existing_cache, completed_jobs,
          merged_cache, added, already_exists, exit_code, saves, saved_arg,
          save_result, start_file, run, first_file, first_exit>>

-----------------------------------------------------------------------------
\* Bounds of the explored inputs.

\* largest number of members of the JSON object in the cache file
MaxEntries == 2
\* largest number of entries of the output directory
MaxDirs == 2

\* Keys a cache file written by an older tool version or by hand may hold.
KeyPool ==
    { <<"a">>, <<"/", "a">>, <<"\\", "a">>, <<"a", "/">>, <<"?">>,
      <<"a", "\\", "?">>, <<"/", "a", "\\", "a">> }

\* Names of entries of the output directory (no "/", not empty).
NamePool == { <<"a">>, <<"?">>, <<"\\", "a">>, <<".", "a">> }

\* JSON values of cache entries.
Values == {TRUE, FALSE}

\* len(sys.argv) of an invocation
ArgCounts == {1, 2, 3}

-----------------------------------------------------------------------------
\* Strings

\* ord(c) for the characters of the model's alphabet
Code(c) ==
    CASE c = "."  -> 46
      [] c = "/"  -> 47
      [] c = "?"  -> 63
      [] c = "\\" -> 92
      [] c = "a"  -> 97

\* Python's str.__lt__: lexicographic by code point, a proper prefix is less
RECURSIVE StrLess(_, _)
StrLess(s, t) ==
    IF t = <<>> THEN FALSE
    ELSE IF s = <<>> THEN TRUE
    ELSE IF Head(s) # Head(t) THEN Code(Head(s)) < Code(Head(t))
    ELSE StrLess(Tail(s), Tail(t))

\* key.replace('\\', '/')
ReplaceBackslash(s) == [i \in 1..Len(s) |-> IF s[i] = "\\" THEN "/" ELSE s[i]]

\* s.rfind('/') + 1: the index (from 0) just after the last '/', 0 if none
RfindSlashPlus1(s) ==
    LET hits == {i \in 1..Len(s) : s[i] = "/"}
    IN  IF hits = {} THEN 0 ELSE CHOOSE i \in hits : \A j \in hits : j <= i

\* posixpath.basename(p): p[p.rfind('/') + 1:]
Basename(p) == SubSeq(p, RfindSlashPlus1(p) + 1, Len(p))

\* NormalizeKey without the replace of backslashes
NormalizeKey_posix_only(key) == Basename(key)

\* basename = os.path.basename(key.replace('\\', '/'))
NormalizeKey(key) == Basename(ReplaceBackslash(key))

\* the key contains '/' or '\'
HasSeparator(s) == \E i \in 1..Len(s) : s[i] \in {"/", "\\"}

\* name.startswith('.')
StartsWithDot(s) == Len(s) > 0 /\ s[1] = "."

-----------------------------------------------------------------------------
\* Dictionaries

EmptyDict == [k \in {} |-> TRUE]

\* d[key] = value on a dict d (insert or overwrite)
DictSet(d, key, value) ==
    [k \in DOMAIN d \cup {key} |-> IF k = key THEN value ELSE d[k]]

\* the keys of an ordered dict
ItemKeys(items) == {items[i][1] : i \in 1..Len(items)}

\* ordered dicts of exactly n members over the given keys (distinct keys)
ItemSeqs(keys, n) ==
    {q \in [1..n -> keys \X Values] :
        \A i, j \in 1..n : i # j => q[i][1] # q[j][1]}

-----------------------------------------------------------------------------
\* load_completion_cache

AbsentFile     == [kind |-> "absent",     items |-> <<>>]
UnparsableFile == [kind |-> "unparsable", items |-> <<>>]
NotObjectFile  == [kind |-> "notobject",  items |-> <<>>]
ObjectFile(items) == [kind |-> "object",  items |-> items]

\* NormalizeLoop keeping the first value of a basename (dict.setdefault)
RECURSIVE NormalizeLoop_first_wins(_, _)
NormalizeLoop_first_wins(items, normalized_cache) ==
    IF items = <<>> THEN normalized_cache
    ELSE LET basename == NormalizeKey(Head(items)[1])
         IN  NormalizeLoop_first_wins(Tail(items),
                 IF basename \in DOMAIN normalized_cache
                 THEN normalized_cache
                 ELSE DictSet(normalized_cache, basename, Head(items)[2]))

\* for key, value in raw_cache.items(): normalized_cache[basename] = value
RECURSIVE NormalizeLoop(_, _)
NormalizeLoop(items, normalized_cache) ==
    IF items = <<>> THEN normalized_cache
    ELSE NormalizeLoop(Tail(items),
             DictSet(normalized_cache, NormalizeKey(Head(items)[1]),
                     Head(items)[2]))

\* load_completion_cache(output_dir): no file -> {}; json.load or .items()
\* raising -> {} after a warning; an object -> its normalised copy
load_completion_cache(file) ==
    IF file.kind = "object" THEN NormalizeLoop(file.items, EmptyDict)
    ELSE EmptyDict

-----------------------------------------------------------------------------
\* save_completion_cache

\* json.dump(cache, f, indent=2, sort_keys=True): the members in sorted order
RECURSIVE SortedItems(_)
SortedItems(cache) ==
    IF DOMAIN cache = {} THEN <<>>
    ELSE LET k == CHOOSE x \in DOMAIN cache :
                      \A y \in DOMAIN cache \ {x} : StrLess(x, y)
         IN  <<<<k, cache[k]>>>>
               \o SortedItems([y \in DOMAIN cache \ {k} |-> cache[y]])

\* outcomes of open(cache_file, 'w') followed by json.dump
SaveOutcomes == {"written", "open_failed", "dump_failed"}

\* the cache file after save_completion_cache(output_dir, cache)
FileAfterSave(file, cache, outcome) ==
    CASE outcome = "written"     -> ObjectFile(SortedItems(cache))
      [] outcome = "open_failed" -> file
      [] outcome = "dump_failed" -> UnparsableFile

-----------------------------------------------------------------------------
\* find_completed_jobs

\* fnmatch of a directory name against a pattern whose only magic character
\* is '?'; glob drops hidden names unless the pattern itself is hidden
GlobMatch(pattern, name) ==
    /\ Len(pattern) = Len(name)
    /\ \A i \in 1..Len(name) : pattern[i] = "?" \/ pattern[i] = name[i]
    /\ StartsWithDot(name) => StartsWithDot(pattern)

\* entry.is_dir() and not entry.name.startswith('.')
Subdirs(ents) == {n \in DOMAIN ents : ents[n].is_dir /\ ~StartsWithDot(n)}

\* glob.glob(os.path.join(job_dir, '*.done.txt')) is not empty: the name of
\* the job directory is part of the glob pattern
DoneFiles(ents, jobname) ==
    \E n \in DOMAIN ents :
        ents[n].is_dir /\ ents[n].done /\ GlobMatch(jobname, n)

\* completed_jobs[jobname] = True for every subdirectory with done files
find_completed_jobs(ents) ==
    [jobname \in {n \in Subdirs(ents) : DoneFiles(ents, n)} |-> TRUE]

-----------------------------------------------------------------------------
\* merge_caches

\* the loop of merge_caches over new_entries.items(); todo is what is left
RECURSIVE MergeLoop(_, _, _, _, _)
MergeLoop(merged, n_added, n_already, new_entries, todo) ==
    IF todo = {} THEN <<merged, n_added, n_already>>
    ELSE LET jobname == CHOOSE k \in todo : TRUE
         IN  IF jobname \in DOMAIN merged
             THEN MergeLoop(merged, n_added, n_already + 1,
                            new_entries, todo \ {jobname})
             ELSE MergeLoop(DictSet(merged, jobname, new_entries[jobname]),
                            n_added + 1, n_already,
                            new_entries, todo \ {jobname})

\* merge_caches as merged.update(new_entries): a discovered value overwrites
merge_caches_overwrite(existing, new_entries) ==
    LET r == MergeLoop(existing, 0, 0, new_entries, DOMAIN new_entries)
    IN  << [k \in DOMAIN r[1] |->
              IF k \in DOMAIN new_entries THEN new_entries[k] ELSE r[1][k]],
           r[2], r[3] >>

\* merge_caches reporting every discovered identifier as added
merge_caches_all_added(existing, new_entries) ==
    LET r == MergeLoop(existing, 0, 0, new_entries, DOMAIN new_entries)
    IN  <<r[1], Cardinality(DOMAIN new_entries), r[3]>>

\* merge_caches(existing_cache, new_entries) -> (merged, added, already_exists)
merge_caches(existing, new_entries) ==
    MergeLoop(existing, 0, 0, new_entries, DOMAIN new_entries)

-----------------------------------------------------------------------------
\* The output directories and invocations explored

\* an entry of the output directory: a plain file, or a directory in which
\* glob finds ('*.done.txt' matches) some file or none
EntryKinds ==
    { [is_dir |-> FALSE, done |-> FALSE],
      [is_dir |-> TRUE,  done |-> FALSE],
      [is_dir |-> TRUE,  done |-> TRUE] }

Listings ==
    UNION { [names -> EntryKinds] :
              names \in {S \in SUBSET NamePool : Cardinality(S) <= MaxDirs} }

Files ==
    {AbsentFile, UnparsableFile, NotObjectFile}
      \cup {ObjectFile(q) : q \in UNION {ItemSeqs(KeyPool, n) : n \in 0..MaxEntries}}

\* the local variables of main() before it has run
Locals ==
    /\ pc = "start"
    /\ existing_cache = EmptyDict
    /\ completed_jobs = EmptyDict
    /\ merged_cache = EmptyDict
    /\ added = 0
    /\ already_exists = 0
    /\ exit_code = -1
    /\ saves = 0
    /\ saved_arg = EmptyDict
    /\ save_result = "none"

\* os.path.exists(output_dir)
RootExists == root # "missing"

Init ==
    /\ argc \in ArgCounts
    /\ root \in {"missing", "unlistable", "ok"}
    /\ entries \in (IF root = "ok" THEN Listings ELSE {EmptyDict})
    /\ cache_file \in (IF RootExists THEN Files ELSE {AbsentFile})
    /\ Locals
    /\ start_file = cache_file
    /\ run = 1
    /\ first_file = AbsentFile
    /\ first_exit = -1

-----------------------------------------------------------------------------
\* main()

Exit(code) == pc' = "exited" /\ exit_code' = code

\* if len(sys.argv) != 2: usage, sys.exit(1)
CheckArgs ==
    /\ pc = "start"
    /\ IF argc # 2 THEN Exit(1) ELSE pc' = "load" /\ UNCHANGED exit_code
    /\ UNCHANGED <<argc, root, entries, cache_file, existing_cache,
                   completed_jobs, merged_cache, added, already_exists,
                   saves, saved_arg, save_result, start_file, run,
                   first_file, first_exit>>

\* LoadCache without the try/except: a corrupt cache file ends the process
LoadCache_uncaught ==
    /\ pc = "load"
    /\ IF cache_file.kind \in {"unparsable", "notobject"}
       THEN Exit(1) /\ UNCHANGED existing_cache
       ELSE /\ existing_cache' = NormalizeLoop(cache_file.items, EmptyDict)
            /\ pc' = "scan"
            /\ UNCHANGED exit_code
    /\ UNCHANGED <<argc, root, entries, cache_file, completed_jobs,
                   merged_cache, added, already_exists, saves, saved_arg,
                   save_result, start_file, run, first_file, first_exit>>

\* existing_cache = load_completion_cache(output_dir)
LoadCache ==
    /\ pc = "load"
    /\ existing_cache' = load_completion_cache(cache_file)
    /\ pc' = "scan"
    /\ UNCHANGED <<argc, root, entries, cache_file, completed_jobs,
                   merged_cache, added, already_exists, exit_code, saves,
                   saved_arg, save_result, start_file, run, first_file,
                   first_exit>>

\* Scan returning no jobs, instead of exiting, when the directory is missing
\* or cannot be listed
Scan_error_as_empty ==
    /\ pc = "scan"
    /\ completed_jobs' =
         IF root = "ok" THEN find_completed_jobs(entries) ELSE EmptyDict
    /\ pc' = "scanned"
    /\ UNCHANGED <<argc, root, entries, cache_file, existing_cache,
                   merged_cache, added, already_exists, exit_code, saves,
                   saved_arg, save_result, start_file, run, first_file,
                   first_exit>>

\* completed_jobs = find_completed_jobs(output_dir): exits with 1 when the
\* directory does not exist or os.scandir raises
Scan ==
    /\ pc = "scan"
    /\ IF ~RootExists \/ root = "unlistable"
       THEN Exit(1) /\ UNCHANGED completed_jobs
       ELSE /\ completed_jobs' = find_completed_jobs(entries)
            /\ pc' = "scanned"
            /\ UNCHANGED exit_code
    /\ UNCHANGED <<argc, root, entries, cache_file, existing_cache,
                   merged_cache, added, already_exists, saves, saved_arg,
                   save_result, start_file, run, first_file, first_exit>>

\* save_completion_cache(output_dir, cache), then the rest of main(): the
\* process ends with 0 after a write, with 1 when the write raises
SaveAndExit(cache) ==
    /\ saves' = saves + 1
    /\ saved_arg' = cache
    /\ \E outcome \in SaveOutcomes :
         /\ save_result' = outcome
         /\ cache_file' = FileAfterSave(cache_file, cache, outcome)
         /\ Exit(IF outcome = "written" THEN 0 ELSE 1)

\* NoNewJobs returning without the save of the cleaned cache
NoNewJobs_skip_save ==
    /\ pc = "scanned"
    /\ completed_jobs = EmptyDict
    /\ Exit(0)
    /\ UNCHANGED <<argc, root, entries, cache_file, existing_cache,
                   completed_jobs, merged_cache, added, already_exists,
                   saves, saved_arg, save_result, start_file, run,
                   first_file, first_exit>>

\* if not completed_jobs: save existing_cache if it is not empty; return
NoNewJobs ==
    /\ pc = "scanned"
    /\ completed_jobs = EmptyDict
    /\ IF existing_cache # EmptyDict
       THEN SaveAndExit(existing_cache)
       ELSE Exit(0) /\ UNCHANGED <<cache_file, saves, saved_arg, save_result>>
    /\ UNCHANGED <<argc, root, entries, existing_cache, completed_jobs,
                   merged_cache, added, already_exists, start_file, run,
                   first_file, first_exit>>

\* merged_cache, added, already_exists = merge_caches(existing_cache, completed_jobs)
Merge ==
    /\ pc = "scanned"
    /\ completed_jobs # EmptyDict
    /\ LET r == merge_caches(existing_cache, completed_jobs)
       IN  /\ merged_cache' = r[1]
           /\ added' = r[2]
           /\ already_exists' = r[3]
    /\ pc' = "save"
    /\ UNCHANGED <<argc, root, entries, cache_file, existing_cache,
                   completed_jobs, exit_code, saves, saved_arg, save_result,
                   start_file, run, first_file, first_exit>>

\* save_completion_cache(output_dir, merged_cache) and the summary
SaveMerged ==
    /\ pc = "save"
    /\ SaveAndExit(merged_cache)
    /\ UNCHANGED <<argc, root, entries, existing_cache, completed_jobs,
                   merged_cache, added, already_exists, start_file, run,
                   first_file, first_exit>>

Next == CheckArgs \/ LoadCache \/ Scan \/ NoNewJobs \/ Merge \/ SaveMerged

Spec == Init /\ [][Next]_vars

-----------------------------------------------------------------------------
\* The operation run twice in succession on the same output directory

\* the second invocation, started once the first has ended
Rerun ==
    /\ pc = "exited"
    /\ run = 1
    /\ run' = 2
    /\ first_file' = cache_file
    /\ first_exit' = exit_code
    /\ start_file' = cache_file
    /\ pc' = "start"
    /\ existing_cache' = EmptyDict
    /\ completed_jobs' = EmptyDict
    /\ merged_cache' = EmptyDict
    /\ added' = 0
    /\ already_exists' = 0
    /\ exit_code' = -1
    /\ saves' = 0
    /\ saved_arg' = EmptyDict
    /\ save_result' = "none"
    /\ UNCHANGED <<argc, root, entries, cache_file>>

NextTwice == Next \/ Rerun

SpecTwice == Init /\ [][NextTwice]_vars

-----------------------------------------------------------------------------
\* merge_caches on arbitrary mappings

\* mappings with at most n keys
Dicts(keys, n) ==
    UNION { [S -> Values] : S \in {T \in SUBSET keys : Cardinality(T) <= n} }

InitMerge ==
    /\ argc = 2
    /\ root = "ok"
    /\ entries = EmptyDict
    /\ cache_file = AbsentFile
    /\ pc = "merge_call"
    /\ existing_cache \in Dicts(KeyPool \cup NamePool, MaxEntries)
    /\ completed_jobs \in Dicts(KeyPool \cup NamePool, MaxDirs)
    /\ merged_cache = EmptyDict
    /\ added = 0
    /\ already_exists = 0
    /\ exit_code = -1
    /\ saves = 0
    /\ saved_arg = EmptyDict
    /\ save_result = "none"
    /\ start_file = cache_file
    /\ run = 1
    /\ first_file = AbsentFile
    /\ first_exit = -1

\* merged, added, already_exists = merge_caches(existing_cache, new_entries)
MergeCall ==
    /\ pc = "merge_call"
    /\ LET r == merge_caches(existing_cache, completed_jobs)
       IN  /\ merged_cache' = r[1]
           /\ added' = r[2]
           /\ already_exists' = r[3]
    /\ pc' = "merge_done"
    /\ UNCHANGED <<argc, root, entries, cache_file, existing_cache,
                   completed_jobs, exit_code, saves, saved_arg, save_result,
                   start_file, run, first_file, first_exit>>

SpecMerge == InitMerge /\ [][MergeCall]_vars

-----------------------------------------------------------------------------
\* Properties

\* the text of k after its last '/' or '\', k itself when it has neither
TextAfterLastSeparator(k) ==
    LET seps == {i \in 1..Len(k) : k[i] = "/" \/ k[i] = "\\"}
        last == IF seps = {} THEN 0
                ELSE CHOOSE i \in seps : \A j \in seps : j <= i
    IN  [i \in 1..(Len(k) - last) |-> k[last + i]]

\* the run has gone past load_completion_cache
Loaded == argc = 2 /\ pc \notin {"start", "load"}

\* the keys of the cache file the run started with, none unless it is an object
RawKeys == IF start_file.kind = "object" THEN ItemKeys(start_file.items) ELSE {}

\* the subdirectories that are not hidden and hold a *.done.txt file
MarkedJobDirs ==
    {n \in DOMAIN entries :
        entries[n].is_dir /\ ~StartsWithDot(n) /\ entries[n].done}

\* C1: when the operation is run twice in succession on an unchanged output
\* directory and both runs succeed, the cache file after the second run is
\* the cache file after the first run.
C1_SecondRunChangesNothing ==
    (run = 2 /\ pc = "exited" /\ first_exit = 0 /\ exit_code = 0)
        => cache_file = first_file

\* C2: no key of the cache returned by load_completion_cache, returned by
\* merge_caches or passed to save_completion_cache contains '/' or '\'.
C2_KeysHaveNoSeparator ==
    \A k \in DOMAIN existing_cache \cup DOMAIN merged_cache \cup DOMAIN saved_arg :
        ~HasSeparator(k)

\* C3: merge_caches(E, D) returns a cache whose keys are keys(E) union
\* keys(D), where every key of E keeps its value of E and every key only in
\* D has its value of D.
C3_MergeIsUnionExistingWins ==
    pc = "merge_done" =>
        /\ DOMAIN merged_cache = DOMAIN existing_cache \cup DOMAIN completed_jobs
        /\ \A k \in DOMAIN existing_cache : merged_cache[k] = existing_cache[k]
        /\ \A k \in DOMAIN completed_jobs \ DOMAIN existing_cache :
               merged_cache[k] = completed_jobs[k]

\* a merge in which a discovered key is already cached with another value
\* and another discovered key is new
C3_Witness ==
    /\ pc = "merge_done"
    /\ \E k \in DOMAIN existing_cache \cap DOMAIN completed_jobs :
           existing_cache[k] # completed_jobs[k]
    /\ DOMAIN completed_jobs \ DOMAIN existing_cache # {}

\* C4: a run that reaches the end of the scan calls save_completion_cache
\* not at all when the normalised existing cache and the discovered jobs are
\* both empty, and exactly once in every other case.
C4_SaveSkippedIffBothEmpty ==
    (pc = "exited" /\ argc = 2 /\ root = "ok") =>
        saves = IF existing_cache = EmptyDict /\ completed_jobs = EmptyDict
                THEN 0 ELSE 1

\* a run that found no job and saved the non-empty normalised cache
C4_Witness ==
    /\ pc = "exited"
    /\ saves = 1
    /\ completed_jobs = EmptyDict
    /\ existing_cache # EmptyDict

\* C5: a run with a wrong argument count, a missing output directory or an
\* output directory that cannot be listed ends with status 1, calls no save
\* and leaves the cache file as it was.
C5_FatalBeforeSaveLeavesFile ==
    (pc = "exited" /\ (argc # 2 \/ root # "ok")) =>
        /\ exit_code = 1
        /\ saves = 0
        /\ cache_file = start_file

\* a run that loaded a non-empty cache and ended at the unlistable directory
C5_Witness ==
    /\ pc = "exited"
    /\ argc = 2
    /\ root = "unlistable"
    /\ existing_cache # EmptyDict

\* C6: with a cache file that is not a valid mapping the run goes on with an
\* empty existing cache, what it saves is what the scan found, and it ends
\* with status 0 when the directory is listable and no write fails.
C6_CorruptCacheStartsFresh ==
    (argc = 2 /\ start_file.kind \in {"unparsable", "notobject"}) =>
        /\ Loaded => existing_cache = EmptyDict
        /\ (pc = "exited" /\ root = "ok") =>
             /\ saves = (IF completed_jobs = EmptyDict THEN 0 ELSE 1)
             /\ saves = 1 => saved_arg = completed_jobs
             /\ save_result \in {"none", "written"} => exit_code = 0

\* a run that started from a corrupt cache file and wrote the scanned jobs
C6_Witness ==
    /\ start_file.kind \in {"unparsable", "notobject"}
    /\ pc = "exited"
    /\ save_result = "written"
    /\ exit_code = 0

\* C7: after merge_caches(E, D), added counts the keys of D that are not
\* keys of E, already_exists counts those that are, and together they count D.
C7_MergeCounts ==
    pc = "merge_done" =>
        /\ added + already_exists = Cardinality(DOMAIN completed_jobs)
        /\ added = Cardinality(DOMAIN completed_jobs \ DOMAIN existing_cache)
        /\ already_exists =
               Cardinality(DOMAIN completed_jobs \cap DOMAIN existing_cache)

\* a merge with both a new and an already cached identifier
C7_Witness == pc = "merge_done" /\ added > 0 /\ already_exists > 0

\* C8: the loaded cache has no entry under a raw key that contains '/' or
\* '\' and has one under the text after its last separator; a raw key
\* without a separator is kept.
C8_LoadStripsPathPrefix ==
    Loaded =>
        \A k \in RawKeys :
            /\ TextAfterLastSeparator(k) \in DOMAIN existing_cache
            /\ HasSeparator(k) => k \notin DOMAIN existing_cache
            /\ ~HasSeparator(k) => k \in DOMAIN existing_cache

\* a load of a file with a key that has a backslash and a key that has a slash
C8_Witness ==
    /\ Loaded
    /\ \E k1, k2 \in RawKeys :
         /\ \E i \in 1..Len(k1) : k1[i] = "\\"
         /\ \E i \in 1..Len(k2) : k2[i] = "/"

\* the positions, in the raw cache file, of the keys whose basename is b
PositionsOf(b) ==
    {i \in 1..Len(start_file.items) :
        TextAfterLastSeparator(start_file.items[i][1]) = b}

\* C9: when several raw keys have the same basename, the loaded cache holds
\* for that basename the value of the last of them in the file's order.
C9_LastCollidingEntryWins ==
    (Loaded /\ start_file.kind = "object") =>
        \A b \in DOMAIN existing_cache :
            Cardinality(PositionsOf(b)) >= 2 =>
                \E i \in PositionsOf(b) :
                    /\ \A j \in PositionsOf(b) : j <= i
                    /\ existing_cache[b] = start_file.items[i][2]

\* a load of two keys with the same basename and different values
C9_Witness ==
    /\ Loaded
    /\ start_file.kind = "object"
    /\ \E b \in DOMAIN existing_cache :
         \E i, j \in PositionsOf(b) :
             i < j /\ start_file.items[i][2] # start_file.items[j][2]

\* C10: after a run that saved, the keys of the cache file are the basenames
\* of the keys of the cache file the run started with, together with the
\* names of the subdirectories that are not hidden and hold a *.done.txt file.
C10_SavedKeysAreCacheAndMarkedDirs ==
    (pc = "exited" /\ save_result = "written") =>
        ItemKeys(cache_file.items) =
            {TextAfterLastSeparator(k) : k \in RawKeys} \cup MarkedJobDirs

====
